---- MODULE Spec2Model ----
(***************************************************************************)
(* Athena portfolio manager: the optimization engine                       *)
(* (src/models/optimization.py), the composite scorer                      *)
(* (src/feature_engineering/scoring.py), the sector selector called by     *)
(* src/robo_advisor.py and the risk evaluator                              *)
(* (src/evaluation/backtesting.py, src/feature_engineering/                *)
(* risk_indicators.py).                                                    *)
(*                                                                         *)
(* Real numbers are fixed point.  A weight w is the integer w * ONE.  A    *)
(* return is an integer number of percent.                                  *)
(***************************************************************************)
EXTENDS Integers, Sequences, FiniteSets, TLC

\* ------------------------------------------------------------------ bounds

\* Largest number of columns of a return matrix handed to the optimizer.
MaxAssets == 3

\* The solver's answers are sampled on the grid of multiples of 1/GridDiv.
GridDiv == 2

\* ------------------------------------------------------------------- units

\* The weight 1.0.
ONE == 12 * 10^5

\* 1e-4, the tolerance of the weight-sum properties (assertAlmostEqual places=4).
Tol == ONE \div 10^4

\* 1e-6, the accuracy (ftol) scipy's SLSQP works to when none is given.
SolverAcc == ONE \div 10^6

\* Python's None, for a value that is otherwise a vector, a table or a record.
None == << >>

\* A name that was not passed.
NoName == "None"

Abs(x) == IF x < 0 THEN -x ELSE x

RECURSIVE SeqSum(_)
SeqSum(s) == IF Len(s) = 0 THEN 0 ELSE s[1] + SeqSum(Tail(s))

\* np.sum(w)
Sum(w) == SeqSum(w)

\* np.sum(w[w > 0])
SumPositive(w) == SeqSum([i \in 1..Len(w) |-> IF w[i] > 0 THEN w[i] ELSE 0])

\* np.sum(w[w < 0])
SumNegative(w) == SeqSum([i \in 1..Len(w) |-> IF w[i] < 0 THEN w[i] ELSE 0])

\* ------------------------------------------------------------ return data

\* The return history of each asset, in percent per period: the sample data
\* the return matrices are cut from.  A return matrix is a sequence of asset
\* numbers, its columns; the same asset may occur twice (the pipeline
\* concatenates the long and the short candidates).
ReturnHistory ==
    << <<1, 2, -1, 2>>,
       <<0, 1, 2, -1>>,
       <<2, -1, 1, 1>> >>

Assets == 1..Len(ReturnHistory)

NumPeriods == Len(ReturnHistory[1])

ReturnMatrices == UNION {[1..n -> Assets] : n \in 1..MaxAssets}

\* returns.mean(), times NumPeriods.
Mean(rets) == [i \in 1..Len(rets) |-> SeqSum(ReturnHistory[rets[i]])]

\* returns.cov(), times NumPeriods * (NumPeriods - 1).
Cov(rets) ==
    [i \in 1..Len(rets) |-> [j \in 1..Len(rets) |->
        NumPeriods * SeqSum([t \in 1..NumPeriods |->
            ReturnHistory[rets[i]][t] * ReturnHistory[rets[j]][t]])
        - SeqSum(ReturnHistory[rets[i]]) * SeqSum(ReturnHistory[rets[j]])]]

RECURSIVE Det(_)
Det(M) ==
    IF Len(M) = 0 THEN 1
    ELSE IF Len(M) = 1 THEN M[1][1]
    ELSE LET n == Len(M)
             Minor(j) == [r \in 1..(n - 1) |-> [c \in 1..(n - 1) |->
                             M[r + 1][IF c < j THEN c ELSE c + 1]]]
         IN  SeqSum([j \in 1..n |->
                 (IF j % 2 = 1 THEN 1 ELSE -1) * M[1][j] * Det(Minor(j))])

\* np.linalg.inv(cov_matrix) raises LinAlgError when the factorisation meets a
\* zero pivot, which a duplicated column always produces.
Singular(M) == Det(M) = 0

\* ------------------------------------------------------------- the solver

\* A variant of the long-only bounds that lets a weight go short.
LongOnlyBounds_allowShort == [lo |-> -ONE, hi |-> ONE]

\* bounds = tuple((0, 1) for _ in range(num_assets))
LongOnlyBounds == [lo |-> 0, hi |-> ONE]

\* bounds = tuple((-1.0, 1.0) for _ in range(num_assets))
LongShortBounds == [lo |-> -ONE, hi |-> ONE]

\* {'type': 'eq', 'fun': lambda w: np.sum(w) - 1}
SumToOne(w) == <<Sum(w) - ONE>>

\* A variant of the long-short constraints without the one on the shorts.
LongShortConstraints_longOnly(w, ratio) == <<SumPositive(w) - ratio>>

\* [{'type': 'eq', 'fun': lambda w: np.sum(w[w > 0]) - long_short_ratio},
\*  {'type': 'eq', 'fun': lambda w: np.sum(w[w < 0]) + 1.0}]
LongShortConstraints(w, ratio) == <<SumPositive(w) - ratio, SumNegative(w) + ONE>>

\* np.ones(num_assets) / num_assets
EqualWeights(n) == [i \in 1..n |-> ONE \div n]

\* weights[:n // 2] = 1.0 / (n // 2); weights[n // 2:] = -1.0 / (n // 2)
LongShortGuess(n) ==
    [i \in 1..n |-> IF i <= n \div 2 THEN ONE \div (n \div 2)
                                     ELSE -(ONE \div (n \div 2))]

GridValues(b) ==
    {v \in {k * (ONE \div GridDiv) : k \in (-GridDiv)..GridDiv} :
        v >= b.lo /\ v <= b.hi}

InBounds(x, b) == \A i \in 1..Len(x) : x[i] >= b.lo /\ x[i] <= b.hi

\* A grid point and its neighbours one solver accuracy away in one coordinate.
Perturb(w) ==
    {w} \cup {[w EXCEPT ![k] = w[k] + e] :
                 k \in 1..Len(w), e \in {-SolverAcc, SolverAcc}}

Within(res, eps) == \A i \in 1..Len(res) : Abs(res[i]) <= eps

SolverFailures == {"Iteration limit reached", "Inequality constraints incompatible"}

\* scipy.optimize.minimize(fun, x0, method='SLSQP', bounds=..., constraints=...)
\* The library is outside the repository; it is modelled by its contract.  On
\* success x lies within the bounds and every equality constraint is met to
\* the solver's accuracy; which such x is the optimum is left open.  On
\* failure x is the start point and message says why.
Minimize(Residuals(_), b, x0) ==
    LET near == {w \in [1..Len(x0) -> GridValues(b)] :
                    Within(Residuals(w), 2 * SolverAcc)}
        conv == {x \in UNION {Perturb(w) : w \in near} :
                    InBounds(x, b) /\ Within(Residuals(x), SolverAcc)}
    IN  {[success |-> TRUE, x |-> x,
          message |-> "Optimization terminated successfully"] : x \in conv}
        \cup
        {[success |-> FALSE, x |-> x0, message |-> m] : m \in SolverFailures}

\* ----------------------------------------------- the optimization engine

VARIABLES
    pc,                 \* the function the call is in; idle, returned, raised
    entry,              \* the function the caller called
    returns,            \* the return matrix: its columns, in order
    method,
    objective,
    long_short_ratio,
    mean_returns,
    cov_matrix,
    inv_cov_matrix,
    initial_guess,
    result,             \* what minimize() gave back
    minimize_calls,     \* how often minimize() was called in this call
    minimize_options,   \* the names of the solver options minimize() was given
    optimized_weights,  \* the value returned to the caller
    error               \* the exception raised to the caller

VARIABLES
    score_pc,           \* calculate_composite_scores: idle, called, returned, raised
    financial_data,     \* the rows of the fundamentals table
    scoring_config,     \* config['scoring']: metrics and weights
    scores_df,          \* the value calculate_composite_scores returned
    score_error         \* the exception it raised

scoreVars == <<score_pc, financial_data, scoring_config, scores_df, score_error>>

VARIABLES
    sel_pc,             \* sector selection: idle, called, returned
    sel_scores,         \* the composite scores, one row per scored asset
    num_long,
    num_short,
    available_tickers,
    sector_counts,      \* per sector: its members and the adjusted counts
    long_tickers,
    short_tickers

selVars == <<sel_pc, sel_scores, num_long, num_short, available_tickers,
             sector_counts, long_tickers, short_tickers>>

VARIABLES
    risk_pc,            \* calculate_risk_metrics: idle, called, returned
    risk_returns,       \* the return matrix: its columns, in order
    risk_weights,
    risk_free_rate,
    confidence_level,   \* config['model']['optimization']['confidence_level']
    risk_metrics

riskVars == <<risk_pc, risk_returns, risk_weights, risk_free_rate,
              confidence_level, risk_metrics>>

VARIABLES
    risk_earlier        \* an earlier call of calculate_risk_metrics and its result

histVars == <<risk_earlier>>

VARIABLES
    ret_pc,             \* calculate_returns: idle, called, returned
    prices,             \* the cleaned price table, one row per date
    daily_returns       \* the value calculate_returns returned

retVars == <<ret_pc, prices, daily_returns>>

VARIABLES
    allocation          \* run_robo_advisor: the allocation table of step 5

pipeVars == <<allocation>>

VARIABLES
    main_pc,            \* python -m src.main: idle, running, exited
    argv,               \* the command line flags
    main_calls,         \* how often the main block called each function
    sched_pc,           \* start_scheduler: idle, called, registered, looping,
                        \* returned, raised
    rebalance_config,   \* config['rebalance']
    jobs,               \* the jobs added to the scheduler
    scheduler_running,
    scheduler_starts,   \* how often scheduler.start() was called
    job_runs,           \* how often a job ran run_robo_advisor
    sched_error         \* the exception start_scheduler raised

entryVars == <<main_pc, argv, main_calls, sched_pc, rebalance_config, jobs,
               scheduler_running, scheduler_starts, job_runs, sched_error>>

VARIABLES
    fetch_pc,           \* fetch_historical_data: idle, called, returned, raised
    fetch_args,         \* tickers_df, start_date and end_date of the call
    raw_files,          \* data/raw: per date range the table saved there, if any
    fetch_result,       \* the value returned: (data, tickers_df)
    fetch_error         \* the exception raised

fetchVars == <<fetch_pc, fetch_args, raw_files, fetch_result, fetch_error>>

VARIABLES
    report_pc,          \* steps 5 and 6 of a run: idle, allocated,
                        \* allocation_saved, evaluated, done, raised
    run_no,             \* the number of the run
    excel_file,         \* the workbook at excel_path: its sheets, if it exists
    report_error        \* the exception a save raised

reportVars == <<report_pc, run_no, excel_file, report_error>>

VARIABLES
    w_pc,                 \* per worker: where its optimize call is
    w_returns,            \* per worker: the return matrix it owns
    w_cov_matrix,         \* per worker: the local cov_matrix of its call
    w_initial_guess,      \* per worker: the local initial_guess of its call
    w_result,             \* per worker: what minimize() gave its call
    w_optimized_weights,  \* per worker: the value its call returned
    w_error,              \* per worker: the exception its call raised
    w_overlap             \* per worker: minimize() ran while the other
                          \* worker was inside its own call

workerVars == <<w_pc, w_returns, w_cov_matrix, w_initial_guess, w_result,
                w_optimized_weights, w_error, w_overlap>>

outerVars == <<entryVars, fetchVars, reportVars, workerVars>>

optVars == <<pc, entry, returns, method, objective, long_short_ratio,
             mean_returns, cov_matrix, inv_cov_matrix, initial_guess, result,
             minimize_calls, minimize_options, optimized_weights, error>>

optLocals == <<mean_returns, cov_matrix, inv_cov_matrix, initial_guess, result,
               minimize_calls, minimize_options>>

optArgs == <<entry, returns, method, objective, long_short_ratio>>

vars == <<optVars, scoreVars, selVars, riskVars, histVars, retVars, pipeVars, outerVars>>

\* The engine shares no state with the other components.
OptFrame == UNCHANGED <<scoreVars, selVars, riskVars, histVars, retVars, pipeVars, outerVars>>

LongOnlyMethods == {"mean_variance", "minimum_variance", "maximum_sharpe", "risk_parity"}

Objectives == {"maximize_sharpe", "minimize_risk"}

\* Values of config['model']['optimization']['long_short_ratio'].
Ratios == {ONE \div 2, ONE}

\* def optimize_portfolio(returns, risk_free_rate=0.04, method="mean_variance", ...)
DefaultMethod == "mean_variance"

\* objective="maximize_sharpe", long_short_ratio=1.0
DefaultObjective == "maximize_sharpe"

DefaultRatio == ONE

LongOnlyFunctions ==
    {"optimize_portfolio_mean_variance", "optimize_portfolio_min_variance",
     "optimize_portfolio_max_sharpe", "optimize_portfolio_risk_parity"}

\* The calls a caller can make: the dispatchers with a method name (or none,
\* which is the default), and each method's function directly.
OptCalls ==
    {[entry |-> e, method |-> m, objective |-> DefaultObjective,
      long_short_ratio |-> DefaultRatio] :
        e \in {"optimize_portfolio", "optimize_portfolio_multiple_methods"},
        m \in LongOnlyMethods \cup {"bogus", DefaultMethod}}
    \cup
    {[entry |-> "optimize_portfolio_multiple_methods", method |-> "long_short",
      objective |-> DefaultObjective, long_short_ratio |-> DefaultRatio]}
    \cup
    {[entry |-> e, method |-> "long_short", objective |-> o, long_short_ratio |-> r] :
        e \in {"optimize_portfolio"},
        o \in Objectives \cup {"invalid_objective"}, r \in Ratios}
    \cup
    {[entry |-> "optimize_portfolio_long_short", method |-> NoName,
      objective |-> o, long_short_ratio |-> r] :
        o \in Objectives \cup {"invalid_objective"}, r \in Ratios}
    \cup
    {[entry |-> e, method |-> NoName, objective |-> DefaultObjective,
      long_short_ratio |-> DefaultRatio] :
        e \in LongOnlyFunctions}

OptInit ==
    /\ pc = "idle"
    /\ entry = NoName
    /\ returns = << >>
    /\ method = NoName
    /\ objective = DefaultObjective
    /\ long_short_ratio = DefaultRatio
    /\ mean_returns = None
    /\ cov_matrix = None
    /\ inv_cov_matrix = None
    /\ initial_guess = None
    /\ result = None
    /\ minimize_calls = 0
    /\ minimize_options = {}
    /\ optimized_weights = None
    /\ error = None

\* A caller calls into the engine with a return matrix.
OptCall ==
    /\ OptFrame
    /\ pc = "idle"
    /\ \E c \in OptCalls, r \in ReturnMatrices :
        /\ entry' = c.entry
        /\ returns' = r
        /\ method' = c.method
        /\ objective' = c.objective
        /\ long_short_ratio' = c.long_short_ratio
        /\ pc' = c.entry
    /\ mean_returns' = None
    /\ cov_matrix' = None
    /\ inv_cov_matrix' = None
    /\ initial_guess' = None
    /\ result' = None
    /\ minimize_calls' = 0
    /\ minimize_options' = {}
    /\ optimized_weights' = None
    /\ error' = None

Raise(type, args) ==
    /\ pc' = "raised"
    /\ error' = [type |-> type, args |-> args]
    /\ optimized_weights' = None

\* optimization.py 308-320
optimize_portfolio ==
    /\ OptFrame
    /\ pc = "optimize_portfolio"
    /\ pc' = IF method = "long_short" THEN "optimize_portfolio_long_short"
                                      ELSE "optimize_portfolio_multiple_methods"
    /\ UNCHANGED <<optArgs, optLocals, optimized_weights, error>>

\* A variant of the dispatch that falls back to the default method instead of
\* rejecting a name it does not know.
optimize_portfolio_multiple_methods_fallback ==
    /\ OptFrame
    /\ pc = "optimize_portfolio_multiple_methods"
    /\ pc' = IF method = "minimum_variance" THEN "optimize_portfolio_min_variance"
             ELSE IF method = "maximum_sharpe" THEN "optimize_portfolio_max_sharpe"
             ELSE IF method = "risk_parity" THEN "optimize_portfolio_risk_parity"
             ELSE "optimize_portfolio_mean_variance"
    /\ UNCHANGED <<optArgs, optLocals, optimized_weights, error>>

\* optimization.py 279-291
optimize_portfolio_multiple_methods ==
    /\ OptFrame
    /\ pc = "optimize_portfolio_multiple_methods"
    /\ IF method = "mean_variance"
         THEN pc' = "optimize_portfolio_mean_variance" /\ UNCHANGED <<optimized_weights, error>>
       ELSE IF method = "minimum_variance"
         THEN pc' = "optimize_portfolio_min_variance" /\ UNCHANGED <<optimized_weights, error>>
       ELSE IF method = "maximum_sharpe"
         THEN pc' = "optimize_portfolio_max_sharpe" /\ UNCHANGED <<optimized_weights, error>>
       ELSE IF method = "risk_parity"
         THEN pc' = "optimize_portfolio_risk_parity" /\ UNCHANGED <<optimized_weights, error>>
       ELSE Raise("ValueError", <<"Unsupported optimization method", method>>)
    /\ UNCHANGED <<optArgs, optLocals>>

\* A variant that returns result.x without looking at result.success.
ReturnOrRaise_unchecked(r, label) ==
    [pc |-> "returned", optimized_weights |-> r.x, error |-> None]

\* if result.success: return result.x
\* else: raise ValueError("... failed:", result.message)
ReturnOrRaise(r, label) ==
    IF r.success
      THEN [pc |-> "returned", optimized_weights |-> r.x, error |-> None]
      ELSE [pc |-> "raised", optimized_weights |-> None,
            error |-> [type |-> "ValueError", args |-> <<label, r.message>>]]

\* minimize(fun, x0, method='SLSQP', bounds=bounds, constraints=constraints):
\* no options argument, so the iteration limit is the library's own default.
MinimizeOptions == {}

\* The call of minimize() and the branch on its result.
Solve(r, label) ==
    /\ OptFrame
    /\ result' = r
    /\ minimize_calls' = minimize_calls + 1
    /\ minimize_options' = MinimizeOptions
    /\ pc' = ReturnOrRaise(r, label).pc
    /\ optimized_weights' = ReturnOrRaise(r, label).optimized_weights
    /\ error' = ReturnOrRaise(r, label).error
    /\ UNCHANGED <<optArgs, mean_returns, cov_matrix, inv_cov_matrix, initial_guess>>

\* optimization.py 25-62
optimize_portfolio_long_short ==
    /\ OptFrame
    /\ pc = "optimize_portfolio_long_short"
    /\ mean_returns' = Mean(returns)
    /\ cov_matrix' = Cov(returns)
    /\ IF Len(returns) \div 2 = 0
         THEN /\ Raise("ZeroDivisionError", <<"float division by zero">>)
              /\ UNCHANGED initial_guess
       ELSE IF objective \notin Objectives
         THEN /\ Raise("ValueError", <<"Unsupported optimization objective", objective>>)
              /\ initial_guess' = LongShortGuess(Len(returns))
       ELSE /\ pc' = "long_short_minimize"
            /\ initial_guess' = LongShortGuess(Len(returns))
            /\ UNCHANGED <<optimized_weights, error>>
    /\ UNCHANGED <<optArgs, inv_cov_matrix, result, minimize_calls, minimize_options>>

\* optimization.py 64-74
long_short_minimize ==
    /\ pc = "long_short_minimize"
    /\ \E r \in Minimize(LAMBDA w : LongShortConstraints(w, long_short_ratio),
                         LongShortBounds, initial_guess) :
          Solve(r, "Long-short portfolio optimization failed:")

\* optimization.py 91-108
optimize_portfolio_mean_variance ==
    /\ OptFrame
    /\ pc = "optimize_portfolio_mean_variance"
    /\ mean_returns' = Mean(returns)
    /\ cov_matrix' = Cov(returns)
    /\ initial_guess' = EqualWeights(Len(returns))
    /\ pc' = "mean_variance_minimize"
    /\ UNCHANGED <<optArgs, inv_cov_matrix, result, minimize_calls, minimize_options,
                   optimized_weights, error>>

\* optimization.py 110-120
mean_variance_minimize ==
    /\ pc = "mean_variance_minimize"
    /\ \E r \in Minimize(SumToOne, LongOnlyBounds, initial_guess) :
          Solve(r, "Mean-Variance Optimization failed:")

\* optimization.py 135-149
optimize_portfolio_min_variance ==
    /\ OptFrame
    /\ pc = "optimize_portfolio_min_variance"
    /\ cov_matrix' = Cov(returns)
    /\ initial_guess' = EqualWeights(Len(returns))
    /\ pc' = "min_variance_minimize"
    /\ UNCHANGED <<optArgs, mean_returns, inv_cov_matrix, result, minimize_calls,
                   minimize_options, optimized_weights, error>>

\* optimization.py 151-161
min_variance_minimize ==
    /\ pc = "min_variance_minimize"
    /\ \E r \in Minimize(SumToOne, LongOnlyBounds, initial_guess) :
          Solve(r, "Minimum Variance Optimization failed:")

\* optimization.py 177-193
optimize_portfolio_max_sharpe ==
    /\ OptFrame
    /\ pc = "optimize_portfolio_max_sharpe"
    /\ mean_returns' = Mean(returns)
    /\ cov_matrix' = Cov(returns)
    /\ initial_guess' = EqualWeights(Len(returns))
    /\ pc' = "max_sharpe_minimize"
    /\ UNCHANGED <<optArgs, inv_cov_matrix, result, minimize_calls, minimize_options,
                   optimized_weights, error>>

\* optimization.py 195-206
max_sharpe_minimize ==
    /\ pc = "max_sharpe_minimize"
    /\ \E r \in Minimize(SumToOne, LongOnlyBounds, initial_guess) :
          Solve(r, "Maximum Sharpe Ratio Optimization failed:")

\* optimization.py 221-232
optimize_portfolio_risk_parity ==
    /\ OptFrame
    /\ pc = "optimize_portfolio_risk_parity"
    /\ cov_matrix' = Cov(returns)
    /\ IF Singular(Cov(returns))
         THEN /\ Raise("LinAlgError", <<"Singular matrix">>)
              /\ UNCHANGED <<inv_cov_matrix, initial_guess>>
         ELSE /\ inv_cov_matrix' = [det |-> Det(Cov(returns))]
              /\ initial_guess' = EqualWeights(Len(returns))
              /\ pc' = "risk_parity_minimize"
              /\ UNCHANGED <<optimized_weights, error>>
    /\ UNCHANGED <<optArgs, mean_returns, result, minimize_calls, minimize_options>>

\* optimization.py 252-262
risk_parity_minimize ==
    /\ pc = "risk_parity_minimize"
    /\ \E r \in Minimize(SumToOne, LongOnlyBounds, initial_guess) :
          Solve(r, "Risk Parity Optimization failed:")

OptNext ==
    \/ OptCall
    \/ optimize_portfolio
    \/ optimize_portfolio_multiple_methods
    \/ optimize_portfolio_long_short
    \/ long_short_minimize
    \/ optimize_portfolio_mean_variance
    \/ mean_variance_minimize
    \/ optimize_portfolio_min_variance
    \/ min_variance_minimize
    \/ optimize_portfolio_max_sharpe
    \/ max_sharpe_minimize
    \/ optimize_portfolio_risk_parity
    \/ risk_parity_minimize


\* ------------------------------------------------- the composite scorer

\* Largest number of rows (assets) of the fundamentals table.
MaxRows == 3

\* A cell is <<v>>, or empty when the value is missing (NaN).
NaN == << >>

\* Two of the columns collect_stocks_data fills; data.get(..., None) leaves a
\* missing one empty.
MetricColumns == {"Trailing P/E", "Return on Equity"}

MetricValues == {0, 1}

WeightValues == {1, 2}

\* Standardized values are kept to three decimals.
ZScale == 10^3

\* One row per ticker, tickers 1..n in the order they were fetched.
FinancialTables ==
    UNION {{[i \in 1..n |-> [Ticker |-> i, metrics |-> f[i]]] :
               f \in [1..n -> [MetricColumns -> {<<v>> : v \in MetricValues} \cup {NaN}]]} :
           n \in 1..MaxRows}

ScoringConfigs ==
    {[metrics |-> m, weights |-> w] :
        m \in {q \in UNION {[1..k -> MetricColumns] : k \in 1..Cardinality(MetricColumns)} :
                  \A i, j \in 1..Len(q) : i # j => q[i] # q[j]},
        w \in UNION {[1..k -> WeightValues] : k \in 1..Cardinality(MetricColumns)}}

RECURSIVE SqrtSearch(_, _, _)
SqrtSearch(n, lo, hi) ==
    IF lo >= hi THEN lo
    ELSE LET mid == (lo + hi + 1) \div 2
         IN  IF mid * mid <= n THEN SqrtSearch(n, mid, hi)
                               ELSE SqrtSearch(n, lo, mid - 1)

\* The integer part of the square root.
ISqrt(n) == SqrtSearch(n, 0, IF n < 46340 THEN n ELSE 46340)

\* A variant that drops a row for a missing value in any column, configured
\* or not: financial_data.dropna()[['Ticker'] + metrics].
DropNa_anyColumn(data, metrics) ==
    SelectSeq(data, LAMBDA row : \A m \in MetricColumns : row.metrics[m] # NaN)

\* financial_data[['Ticker'] + metrics].dropna()
DropNa(data, metrics) ==
    SelectSeq(data, LAMBDA row : \A j \in 1..Len(metrics) : row.metrics[metrics[j]] # NaN)

\* A variant that leaves a column of standard deviation zero uncentred.
Standardize_uncentred(col) ==
    LET n == Len(col)
        s == SeqSum(col)
        d == n * SeqSum([i \in 1..n |-> col[i] * col[i]]) - s * s
    IN  [i \in 1..n |->
            IF d = 0 THEN col[i] * ZScale
            ELSE LET num == n * col[i] - s
                     mag == ISqrt((num * num * ZScale * ZScale) \div d)
                 IN  IF num < 0 THEN -mag ELSE mag]

\* StandardScaler().fit_transform on one column: (x - mean) / std with the
\* population std, and a std of zero replaced by 1.
Standardize(col) ==
    LET n == Len(col)
        s == SeqSum(col)
        d == n * SeqSum([i \in 1..n |-> col[i] * col[i]]) - s * s
    IN  [i \in 1..n |->
            IF d = 0 THEN 0
            ELSE LET num == n * col[i] - s
                     mag == ISqrt((num * num * ZScale * ZScale) \div d)
                 IN  IF num < 0 THEN -mag ELSE mag]

\* A variant that adds the standardized values up without the weights.
CompositeScore_unweighted(data, metrics, weights, i) ==
    SeqSum([j \in 1..Len(metrics) |->
        Standardize([k \in 1..Len(data) |-> data[k].metrics[metrics[j]][1]])[i]])

\* standardized_df.mul(weights).sum(axis=1), for row i
CompositeScore(data, metrics, weights, i) ==
    SeqSum([j \in 1..Len(metrics) |->
        Standardize([k \in 1..Len(data) |-> data[k].metrics[metrics[j]][1]])[i] * weights[j]])

\* A variant that attaches the tickers in reverse order.
TickerColumn_reversed(data) == [i \in 1..Len(data) |-> data[Len(data) + 1 - i].Ticker]

\* tickers = data['Ticker']; standardized_df['Ticker'] = tickers.values
TickerColumn(data) == [i \in 1..Len(data) |-> data[i].Ticker]

ScoreFrame == UNCHANGED <<optVars, selVars, riskVars, histVars, retVars, pipeVars, outerVars>>

ScoreInit ==
    /\ score_pc = "idle"
    /\ financial_data = << >>
    /\ scoring_config = [metrics |-> << >>, weights |-> << >>]
    /\ scores_df = None
    /\ score_error = None

\* A caller calls calculate_composite_scores(financial_data, scoring_config).
ScoreCall ==
    /\ ScoreFrame
    /\ score_pc = "idle"
    /\ \E d \in FinancialTables, c \in ScoringConfigs :
        /\ financial_data' = d
        /\ scoring_config' = c
    /\ score_pc' = "called"
    /\ UNCHANGED <<scores_df, score_error>>

\* scoring.py 22-53
calculate_composite_scores ==
    /\ ScoreFrame
    /\ score_pc = "called"
    /\ LET metrics == scoring_config.metrics
           weights == scoring_config.weights
           data == DropNa(financial_data, metrics)
       IN  IF Len(metrics) # Len(weights)
             THEN /\ score_pc' = "returned"
                  /\ scores_df' = None
                  /\ score_error' = None
           ELSE IF Len(data) = 0
             THEN /\ score_pc' = "raised"
                  /\ scores_df' = None
                  /\ score_error' = [type |-> "ValueError",
                                     args |-> <<"Found array with 0 sample(s)">>]
           ELSE /\ score_pc' = "returned"
                /\ scores_df' = [i \in 1..Len(data) |->
                                    [Ticker |-> TickerColumn(data)[i],
                                     Score |-> CompositeScore(data, metrics, weights, i)]]
                /\ score_error' = None
    /\ UNCHANGED <<financial_data, scoring_config>>

ScoreNext ==
    \/ ScoreCall
    \/ calculate_composite_scores

\* --------------------------------------------------- the sector selector
\* run_robo_advisor calls sector_specific_screening(financial_data, scores_df,
\* tickers_df, num_long, num_short, available_tickers) and takes two tables
\* from it.  That selector is described in the specification's section 4.2.

\* Number of tickers of the scored universe.
NumTickers == 5

\* Largest configured num_long and num_short.
MaxCount == 5

ScoreValues == {0, 1}

\* tickers_df: groupby visits the sectors in the order of their names.
Sectors == <<"Energy", "Information Technology">>

SectorOf(t) == IF t <= 3 THEN "Information Technology" ELSE "Energy"

ScoreTables ==
    {[t \in 1..NumTickers |-> [Ticker |-> t, Sector |-> SectorOf(t), Score |-> f[t]]] :
        f \in [1..NumTickers -> ScoreValues]}

Max(a, b) == IF a >= b THEN a ELSE b

Min(a, b) == IF a <= b THEN a ELSE b

\* row put behind the rows of the sorted table that score at least as much.
InsertDescending(sorted, row) ==
    LET k == Cardinality({i \in 1..Len(sorted) : sorted[i].Score >= row.Score})
    IN  SubSeq(sorted, 1, k) \o <<row>> \o SubSeq(sorted, k + 1, Len(sorted))

RECURSIVE SortDescending(_)
SortDescending(rows) ==
    IF Len(rows) = 0 THEN << >>
    ELSE InsertDescending(SortDescending(SubSeq(rows, 1, Len(rows) - 1)), rows[Len(rows)])

\* The first k rows (all of them when there are fewer).
HeadRows(rows, k) == SubSeq(rows, 1, Min(k, Len(rows)))

\* The last k rows (all of them when there are fewer).
TailRows(rows, k) == SubSeq(rows, Max(1, Len(rows) - k + 1), Len(rows))

\* The long count of a sector of `size` members: L, or L/(L+S) of the
\* size rounded down, and at least 1, when the sector has fewer than L+S.
AdjustedLong(size, L, S) ==
    IF size < L + S THEN Max(1, (size * L) \div (L + S)) ELSE L

\* The short count: S, or what the long count leaves, and at least 1.
AdjustedShort(size, L, S) ==
    IF size < L + S THEN Max(1, size - AdjustedLong(size, L, S)) ELSE S

\* The scored rows of one sector that are eligible, best score first.
SectorRows(scores, eligible, sector) ==
    SortDescending(SelectSeq(scores,
        LAMBDA row : row.Ticker \in eligible /\ row.Sector = sector))

RECURSIVE Concat(_)
Concat(tables) == IF Len(tables) = 0 THEN << >> ELSE tables[1] \o Concat(Tail(tables))

SelFrame == UNCHANGED <<optVars, scoreVars, riskVars, histVars, retVars, pipeVars, outerVars>>

SelInit ==
    /\ sel_pc = "idle"
    /\ sel_scores = << >>
    /\ num_long = 0
    /\ num_short = 0
    /\ available_tickers = {}
    /\ sector_counts = None
    /\ long_tickers = None
    /\ short_tickers = None

\* robo_advisor.py 82-97: the arguments of the selection.
SelCall ==
    /\ SelFrame
    /\ sel_pc = "idle"
    /\ \E sc \in ScoreTables, L \in 1..MaxCount, S \in 1..MaxCount,
          el \in SUBSET (1..NumTickers) :
        /\ sel_scores' = sc
        /\ num_long' = L
        /\ num_short' = S
        /\ available_tickers' = el
    /\ sel_pc' = "called"
    /\ UNCHANGED <<sector_counts, long_tickers, short_tickers>>

\* The selection: per sector, the top and the bottom rows by score.
sector_specific_screening ==
    /\ SelFrame
    /\ sel_pc = "called"
    /\ LET rows(k) == SectorRows(sel_scores, available_tickers, Sectors[k])
           nl(k) == AdjustedLong(Len(rows(k)), num_long, num_short)
           ns(k) == AdjustedShort(Len(rows(k)), num_long, num_short)
       IN  /\ sector_counts' =
                 [k \in 1..Len(Sectors) |->
                     IF Len(rows(k)) = 0
                       THEN [size |-> 0, long |-> 0, short |-> 0]
                       ELSE [size |-> Len(rows(k)), long |-> nl(k), short |-> ns(k)]]
           /\ long_tickers' =
                 Concat([k \in 1..Len(Sectors) |-> HeadRows(rows(k), nl(k))])
           /\ short_tickers' =
                 Concat([k \in 1..Len(Sectors) |-> TailRows(rows(k), ns(k))])
    /\ sel_pc' = "returned"
    /\ UNCHANGED <<sel_scores, num_long, num_short, available_tickers>>

SelNext ==
    \/ SelCall
    \/ sector_specific_screening

\* ------------------------------------- the pipeline up to the selection
\* run_robo_advisor, step 3: the value calculate_composite_scores returned,
\* a table or None, goes to the sector selection.

\* scoring_config.get('num_long', 5), scoring_config.get('num_short', 5)
DefaultCount == 5

\* set(clean_data.columns) - set(['Date']): every ticker, or the first alone
\* when the cleaning dropped the others.
CleanTickers == {1..MaxRows, {1}}

\* robo_advisor.py 80-97: calculate_composite_scores has returned and
\* sector_specific_screening is called with its value; None stays None.
RoboSelectCall ==
    /\ UNCHANGED <<optVars, scoreVars, riskVars, histVars, retVars, pipeVars, outerVars>>
    /\ score_pc = "returned"
    /\ sel_pc = "idle"
    /\ sel_scores' = [i \in 1..Len(scores_df) |->
                          [Ticker |-> scores_df[i].Ticker,
                           Sector |-> SectorOf(scores_df[i].Ticker),
                           Score |-> scores_df[i].Score]]
    /\ num_long' = DefaultCount
    /\ num_short' = DefaultCount
    /\ \E el \in CleanTickers : available_tickers' = el
    /\ sel_pc' = "called"
    /\ UNCHANGED <<sector_counts, long_tickers, short_tickers>>

RunNext ==
    \/ ScoreCall
    \/ calculate_composite_scores
    \/ RoboSelectCall

\* ---------------------------------------------------- the risk evaluator

\* Values of config['model']['optimization']['confidence_level'], in percent.
ConfidenceLevels == {90, 95, 99}

\* Values of config['model']['optimization']['risk_free_rate'], in 1e-4.
RiskFreeRates == {0, 400}

\* calculate_var(portfolio_returns, confidence_level=0.95), in percent.
VarConfidence == 95

\* Trading periods per year.
TradingDays == 252

\* Portfolio returns and cumulative values are kept in units of 1e-4.
Unit == 10^4

InsertAscending(sorted, x) ==
    LET k == Cardinality({i \in 1..Len(sorted) : sorted[i] <= x})
    IN  SubSeq(sorted, 1, k) \o <<x>> \o SubSeq(sorted, k + 1, Len(sorted))

RECURSIVE SortAscending(_)
SortAscending(xs) ==
    IF Len(xs) = 0 THEN << >>
    ELSE InsertAscending(SortAscending(SubSeq(xs, 1, Len(xs) - 1)), xs[Len(xs)])

\* returns.dot(weights): one value per period, in 1e-4.
PortfolioReturns(rets, w) ==
    [t \in 1..NumPeriods |->
        SeqSum([i \in 1..Len(rets) |-> ReturnHistory[rets[i]][t] * w[i] * 100]) \div ONE]

\* np.percentile(a, q), linear interpolation between the two nearest ranks;
\* q in percent, the result times 100.
Percentile(a, q) ==
    LET sorted == SortAscending(a)
        pos == (Len(a) - 1) * q
        lo == pos \div 100
        rem == pos % 100
    IN  IF lo + 1 >= Len(a) THEN 100 * sorted[Len(a)]
        ELSE 100 * sorted[lo + 1] + rem * (sorted[lo + 2] - sorted[lo + 1])

\* risk_indicators.py 18-25; the confidence level in percent.
calculate_var(rets, confidence) == Percentile(rets, 100 - confidence)

\* (1 + portfolio_returns).cumprod()
RECURSIVE CumProd(_)
CumProd(p) ==
    IF Len(p) = 0 THEN << >>
    ELSE LET before == CumProd(SubSeq(p, 1, Len(p) - 1))
             last == IF Len(before) = 0 THEN Unit ELSE before[Len(before)]
         IN  Append(before, (last * (Unit + p[Len(p)])) \div Unit)

\* A variant that measures every value against the starting capital of 1
\* instead of the running maximum.
CumMax_startingCapital(c) == [t \in 1..Len(c) |-> Unit]

\* cumulative_returns.cummax()
CumMax(c) ==
    [t \in 1..Len(c) |-> CHOOSE m \in {c[u] : u \in 1..t} : \A u \in 1..t : c[u] <= m]

\* A variant that keeps the deepest drawdown seen so far across calls.
calculate_max_drawdown_carried(cumulative_returns) ==
    LET drawdown == [t \in 1..Len(cumulative_returns) |->
                        (cumulative_returns[t] * Unit) \div CumMax(cumulative_returns)[t] - Unit]
        m == CHOOSE d \in {drawdown[t] : t \in 1..Len(drawdown)} :
                 \A t \in 1..Len(drawdown) : d <= drawdown[t]
    IN  IF risk_metrics = None THEN m ELSE Min(m, risk_metrics.max_drawdown)

\* risk_indicators.py 27-35
calculate_max_drawdown(cumulative_returns) ==
    LET drawdown == [t \in 1..Len(cumulative_returns) |->
                        (cumulative_returns[t] * Unit) \div CumMax(cumulative_returns)[t] - Unit]
    IN  CHOOSE m \in {drawdown[t] : t \in 1..Len(drawdown)} :
            \A t \in 1..Len(drawdown) : m <= drawdown[t]

\* risk_indicators.py 37-47; the result times 100.  A standard deviation of
\* zero leaves no finite value: inf (1), -inf (-1) or nan (0).
calculate_sharpe_ratio(p, rf) ==
    LET T == Len(p)
        s == SeqSum(p)
        v == T * SeqSum([t \in 1..T |-> p[t] * p[t]]) - s * s
        excess == ((TradingDays * s - T * rf) * 100) \div (TradingDays * T)
        std == ISqrt((v * 100) \div (T * (T - 1)))
    IN  IF v = 0
          THEN [finite |-> FALSE,
                value |-> IF excess > 0 THEN 1 ELSE IF excess < 0 THEN -1 ELSE 0]
          ELSE [finite |-> TRUE,
                value |-> (excess * ISqrt(TradingDays * 10^4)) \div (10 * std)]

RiskFrame == UNCHANGED <<optVars, scoreVars, selVars, histVars, retVars, pipeVars, outerVars>>

RiskInit ==
    /\ risk_pc = "idle"
    /\ risk_returns = << >>
    /\ risk_weights = << >>
    /\ risk_free_rate = 0
    /\ confidence_level = VarConfidence
    /\ risk_metrics = None

\* main.py 25-26, 61: the caller reads the risk-free rate and the confidence
\* level from the configuration and calls calculate_risk_metrics.
RiskCall ==
    /\ RiskFrame
    /\ risk_pc = "idle"
    /\ \E r \in ReturnMatrices, c \in ConfidenceLevels, rf \in RiskFreeRates :
        /\ risk_returns' = r
        /\ confidence_level' = c
        /\ risk_free_rate' = rf
        /\ \E w \in [1..Len(r) -> GridValues(LongOnlyBounds)] : risk_weights' = w
    /\ risk_pc' = "called"
    /\ UNCHANGED risk_metrics

\* backtesting.py 32-55
calculate_risk_metrics ==
    /\ RiskFrame
    /\ risk_pc = "called"
    /\ LET portfolio_returns == PortfolioReturns(risk_returns, risk_weights)
       IN  risk_metrics' =
             [var |-> calculate_var(portfolio_returns, VarConfidence),
              max_drawdown |-> calculate_max_drawdown(CumProd(portfolio_returns)),
              sharpe_ratio |-> calculate_sharpe_ratio(portfolio_returns, risk_free_rate)]
    /\ risk_pc' = "returned"
    /\ UNCHANGED <<risk_returns, risk_weights, risk_free_rate, confidence_level>>

RiskNext ==
    \/ RiskCall
    \/ calculate_risk_metrics

\* ------------------------------------------- repeated risk evaluations
\* calculate_risk_metrics is called again and again; one call that has
\* returned is kept, with its result, to compare later calls with.

HistInit == risk_earlier = None

\* The return matrices of two columns.
TwoAssetMatrices == [1..2 -> Assets]

\* Weights of a two-asset portfolio: all in one asset, or half in each.
TwoAssetWeights == {<<ONE, 0>>, <<ONE \div 2, ONE \div 2>>, <<0, ONE>>}

\* A caller calls calculate_risk_metrics(returns, weights, risk_free_rate), as
\* tests/test_evaluation.py does with two assets; any earlier result is still
\* lying around.
RiskCallAgain ==
    /\ UNCHANGED <<optVars, scoreVars, selVars, histVars, retVars, pipeVars, outerVars>>
    /\ risk_pc = "idle"
    /\ \E r \in TwoAssetMatrices, rf \in RiskFreeRates :
        /\ risk_returns' = r
        /\ risk_free_rate' = rf
        /\ \E w \in TwoAssetWeights : risk_weights' = w
    /\ risk_pc' = "called"
    /\ UNCHANGED <<confidence_level, risk_metrics>>

\* The caller has its result and keeps this call to compare with.
RiskRemember ==
    /\ UNCHANGED <<optVars, scoreVars, selVars, retVars, pipeVars, outerVars>>
    /\ risk_pc = "returned"
    /\ risk_earlier = None
    /\ risk_earlier' = [returns |-> risk_returns, weights |-> risk_weights,
                        risk_free_rate |-> risk_free_rate, metrics |-> risk_metrics,
                        between |-> FALSE]
    /\ risk_pc' = "idle"
    /\ UNCHANGED <<risk_returns, risk_weights, risk_free_rate, confidence_level,
                   risk_metrics>>

\* The caller has its result; a call after the one kept is a call in between.
RiskReturn ==
    /\ UNCHANGED <<optVars, scoreVars, selVars, retVars, pipeVars, outerVars>>
    /\ risk_pc = "returned"
    /\ risk_earlier' = IF risk_earlier = None THEN None
                       ELSE [risk_earlier EXCEPT !.between = TRUE]
    /\ risk_pc' = "idle"
    /\ UNCHANGED <<risk_returns, risk_weights, risk_free_rate, confidence_level,
                   risk_metrics>>

RiskRepeatNext ==
    \/ RiskCallAgain
    \/ calculate_risk_metrics
    \/ RiskRemember
    \/ RiskReturn

\* ------------------------------------------------------ daily returns

\* Largest number of rows (dates) of the cleaned price table.
MaxPriceRows == 3

\* Adjusted close prices: positive.
PriceValues == {1, 2}

\* One row per date, the dates increasing; a price for every asset.
PriceTables ==
    UNION {{[t \in 1..n |-> [Date |-> t, values |-> [a \in Assets |-> <<f[t][a]>>]]] :
               f \in [1..n -> [Assets -> PriceValues]]} :
           n \in 1..MaxPriceRows}

\* prices.pct_change(): per asset the change from the row before, in percent;
\* the first row has no row before it and is all NaN.
PctChange(table) ==
    [t \in 1..Len(table) |->
        [Date |-> table[t].Date,
         values |-> [a \in Assets |->
            IF t = 1 THEN NaN
            ELSE <<((table[t].values[a][1] - table[t - 1].values[a][1]) * 100)
                       \div table[t - 1].values[a][1]>>]]]

\* A variant that drops no row.
DropNaRows_keepAll(table) == table

\* .dropna(): the rows without a NaN, in their order.
DropNaRows(table) ==
    SelectSeq(table, LAMBDA row : \A a \in Assets : row.values[a] # NaN)

RetInit ==
    /\ ret_pc = "idle"
    /\ prices = << >>
    /\ daily_returns = None

\* run_robo_advisor calls calculate_returns on the cleaned prices.
RetCall ==
    /\ UNCHANGED <<optVars, scoreVars, selVars, riskVars, histVars, pipeVars, outerVars>>
    /\ ret_pc = "idle"
    /\ \E p \in PriceTables : prices' = p
    /\ ret_pc' = "called"
    /\ UNCHANGED daily_returns

\* risk_indicators.py 9-16
calculate_returns ==
    /\ UNCHANGED <<optVars, scoreVars, selVars, riskVars, histVars, pipeVars, outerVars>>
    /\ ret_pc = "called"
    /\ daily_returns' = DropNaRows(PctChange(prices))
    /\ ret_pc' = "returned"
    /\ UNCHANGED prices

RetNext ==
    \/ RetCall
    \/ calculate_returns

\* ------------------------------------- the pipeline after the selection
\* run_robo_advisor, steps 4 to 6: the optimizer's weights go to the
\* allocation report and to the risk evaluation.

PipeInit == allocation = None

\* A variant that lists the weights against the tickers in reverse order.
Allocation_reversed(tickers, weights) ==
    [i \in 1..Len(tickers) |->
        [Ticker |-> tickers[i], Weight |-> weights[Len(weights) + 1 - i]]]

\* pd.DataFrame({'Ticker': tickers, 'Weight': weights})
Allocation(tickers, weights) ==
    [i \in 1..Len(tickers) |-> [Ticker |-> tickers[i], Weight |-> weights[i]]]

\* A variant that rounds the weights it was handed to four decimals in place.
display_portfolio_allocation_inplace ==
    /\ UNCHANGED <<scoreVars, selVars, riskVars, histVars, retVars, outerVars>>
    /\ pc = "returned"
    /\ entry = "optimize_portfolio"
    /\ allocation = None
    /\ optimized_weights' = [i \in 1..Len(optimized_weights) |->
                                 (optimized_weights[i] \div Tol) * Tol]
    /\ allocation' = Allocation(returns, optimized_weights')
    /\ UNCHANGED <<pc, optArgs, optLocals, error>>

\* robo_advisor.py 120: display_portfolio_allocation(returns.columns.tolist(),
\* optimized_weights); backtesting.py 11-21
display_portfolio_allocation ==
    /\ UNCHANGED <<optVars, scoreVars, selVars, riskVars, histVars, retVars, outerVars>>
    /\ pc = "returned"
    /\ entry = "optimize_portfolio"
    /\ allocation = None
    /\ allocation' = Allocation(returns, optimized_weights)

\* robo_advisor.py 125: calculate_risk_metrics(returns, optimized_weights,
\* risk_free_rate) is called.
RoboRiskCall ==
    /\ UNCHANGED <<optVars, scoreVars, selVars, histVars, retVars, pipeVars, outerVars>>
    /\ allocation # None
    /\ risk_pc = "idle"
    /\ risk_returns' = returns
    /\ risk_weights' = optimized_weights
    /\ \E rf \in RiskFreeRates : risk_free_rate' = rf
    /\ risk_pc' = "called"
    /\ UNCHANGED <<confidence_level, risk_metrics>>

PipeNext ==
    \/ OptNext
    \/ display_portfolio_allocation
    \/ RoboRiskCall
    \/ calculate_risk_metrics

\* ------------------------------------------- the program's entry points
\* src/main.py run as a program, and start_scheduler of src/utils/scheduler.py.

\* Largest number of times a scheduled job runs.
MaxRuns == 2

\* A day_of_week that is not configured.
NoDayOfWeek == NoName

\* A day_of_month that is not configured.
NoDayOfMonth == -1

\* sys.argv[1:]
ArgvValues == {{}, {"--schedule"}}

Frequencies == {"daily", "weekly", "monthly", "hourly"}

SupportedFrequencies == {"daily", "weekly", "monthly"}

RebalanceConfigs ==
    {[frequency |-> f, day_of_week |-> dw, day_of_month |-> dm] :
        f \in Frequencies,
        dw \in {NoDayOfWeek, "mon", "Friday"},
        dm \in {NoDayOfMonth, 15, 32}}

\* rebalance_config.get(key, default)
Get(value, absent, default) == IF value = absent THEN default ELSE value

\* str.lower() on the configured names
Lower(name) == IF name = "Friday" THEN "friday" ELSE name

\* apscheduler's CronTrigger takes a weekday as one of these names (or a
\* number) and a day of the month from 1 to 31, and raises ValueError otherwise.
CronWeekdays == {"mon", "tue", "wed", "thu", "fri", "sat", "sun"}

CronDays == 1..31

\* CronTrigger(day_of_week=..., day=..., hour=10, minute=0)
CronTrigger(day_of_week, day) ==
    IF day_of_week # NoDayOfWeek /\ day_of_week \notin CronWeekdays
      THEN [valid |-> FALSE, day_of_week |-> day_of_week, day |-> day,
            hour |-> 10, minute |-> 0]
    ELSE IF day # NoDayOfMonth /\ day \notin CronDays
      THEN [valid |-> FALSE, day_of_week |-> day_of_week, day |-> day,
            hour |-> 10, minute |-> 0]
    ELSE [valid |-> TRUE, day_of_week |-> day_of_week, day |-> day,
          hour |-> 10, minute |-> 0]

EntryFrame ==
    UNCHANGED <<optVars, scoreVars, selVars, riskVars, histVars, retVars, pipeVars,
                fetchVars, reportVars, workerVars>>

EntryInit ==
    /\ main_pc = "idle"
    /\ argv = {}
    /\ main_calls = [run_robo_advisor |-> 0, start_scheduler |-> 0]
    /\ sched_pc = "idle"
    /\ rebalance_config = [frequency |-> "daily", day_of_week |-> NoDayOfWeek,
                           day_of_month |-> NoDayOfMonth]
    /\ jobs = << >>
    /\ scheduler_running = FALSE
    /\ scheduler_starts = 0
    /\ job_runs = 0
    /\ sched_error = None

schedVars == <<sched_pc, rebalance_config, jobs, scheduler_running,
               scheduler_starts, job_runs, sched_error>>

\* python -m src.main, with or without --schedule
MainInvoke ==
    /\ EntryFrame
    /\ main_pc = "idle"
    /\ \E a \in ArgvValues : argv' = a
    /\ main_pc' = "running"
    /\ UNCHANGED <<main_calls, schedVars>>

\* main.py 66-67: if __name__ == "__main__": run_robo_advisor()
main_block ==
    /\ EntryFrame
    /\ main_pc = "running"
    /\ main_calls' = [main_calls EXCEPT !.run_robo_advisor = @ + 1]
    /\ main_pc' = "exited"
    /\ UNCHANGED <<argv, schedVars>>

\* A caller calls start_scheduler(); the configuration is what load_config
\* will read.
SchedulerInvoke ==
    /\ EntryFrame
    /\ sched_pc = "idle"
    /\ \E c \in RebalanceConfigs : rebalance_config' = c
    /\ sched_pc' = "called"
    /\ UNCHANGED <<main_pc, argv, main_calls, jobs, scheduler_running,
                   scheduler_starts, job_runs, sched_error>>

\* scheduler.py 15-37
start_scheduler ==
    /\ EntryFrame
    /\ sched_pc = "called"
    /\ LET frequency == rebalance_config.frequency
           trigger ==
               IF frequency = "daily" THEN CronTrigger(NoDayOfWeek, NoDayOfMonth)
               ELSE IF frequency = "weekly"
                 THEN CronTrigger(Lower(Get(rebalance_config.day_of_week,
                                            NoDayOfWeek, "monday")), NoDayOfMonth)
               ELSE CronTrigger(NoDayOfWeek,
                                Get(rebalance_config.day_of_month, NoDayOfMonth, 1))
           id == IF frequency = "daily" THEN "daily_rebalance"
                 ELSE IF frequency = "weekly" THEN "weekly_rebalance"
                 ELSE "monthly_rebalance"
       IN  IF frequency \notin SupportedFrequencies
             THEN /\ sched_pc' = "returned"
                  /\ UNCHANGED <<jobs, sched_error>>
           ELSE IF ~trigger.valid
             THEN /\ sched_pc' = "raised"
                  /\ sched_error' = [type |-> "ValueError", args |-> <<"CronTrigger">>]
                  /\ UNCHANGED jobs
           ELSE /\ jobs' = Append(jobs, [id |-> id, func |-> "run_robo_advisor",
                                         trigger |-> trigger])
                /\ sched_pc' = "registered"
                /\ UNCHANGED sched_error
    /\ UNCHANGED <<main_pc, argv, main_calls, rebalance_config, scheduler_running,
                   scheduler_starts, job_runs>>

\* scheduler.py 39-45: scheduler.start(), then the main thread spins
scheduler_start ==
    /\ EntryFrame
    /\ sched_pc = "registered"
    /\ scheduler_running' = TRUE
    /\ scheduler_starts' = scheduler_starts + 1
    /\ sched_pc' = "looping"
    /\ UNCHANGED <<main_pc, argv, main_calls, rebalance_config, jobs, job_runs,
                   sched_error>>

\* The background scheduler fires a job: run_robo_advisor runs.
rebalance_job ==
    /\ EntryFrame
    /\ scheduler_running
    /\ Len(jobs) > 0
    /\ job_runs < MaxRuns
    /\ job_runs' = job_runs + 1
    /\ UNCHANGED <<main_pc, argv, main_calls, sched_pc, rebalance_config, jobs,
                   scheduler_running, scheduler_starts, sched_error>>

\* scheduler.py 46-48: KeyboardInterrupt or SystemExit ends the loop
scheduler_shutdown ==
    /\ EntryFrame
    /\ sched_pc = "looping"
    /\ scheduler_running' = FALSE
    /\ sched_pc' = "returned"
    /\ UNCHANGED <<main_pc, argv, main_calls, rebalance_config, jobs,
                   scheduler_starts, job_runs, sched_error>>

EntryNext ==
    \/ MainInvoke
    \/ main_block
    \/ SchedulerInvoke
    \/ start_scheduler
    \/ scheduler_start
    \/ rebalance_job
    \/ scheduler_shutdown

\* ------------------------------------------------ the price download
\* fetch_historical_data of src/data_ingestion/fetch_data.py and its cache
\* of one file per date range.

Tickers == {"AAPL", "MSFT", "GOOG"}

\* start_date and end_date, as one value.
DateRanges == {"2020-01-01_2020-12-31", "2021-01-01_2021-12-31"}

\* The first argument: a list of tickers, as tests/test_data_ingestion.py
\* passes it, or a DataFrame with a Ticker column, as the body reads it.
TickerArguments ==
    {[kind |-> k, tickers |-> t] :
        k \in {"list", "DataFrame"}, t \in (SUBSET Tickers) \ {{}}}

\* A file that does not exist.
NoFile == [exists |-> FALSE, columns |-> {}, rows |-> 0]

\* yf.download(filtered_tickers, start=..., end=...)['Adj Close']: a column per
\* ticker asked for; no rows when the range has no data.
Download(tickers) == {[columns |-> tickers, rows |-> n] : n \in {0, 1}}

FetchFrame ==
    UNCHANGED <<optVars, scoreVars, selVars, riskVars, histVars, retVars, pipeVars,
                entryVars, reportVars, workerVars>>

FetchInit ==
    /\ fetch_pc = "idle"
    /\ fetch_args = [kind |-> "DataFrame", tickers |-> {}, dates |-> NoName]
    /\ raw_files = [d \in DateRanges |-> NoFile]
    /\ fetch_result = None
    /\ fetch_error = None

\* A caller calls fetch_historical_data(tickers, start_date, end_date); the
\* files of earlier calls are still there.
FetchCall ==
    /\ FetchFrame
    /\ fetch_pc \in {"idle", "returned", "raised"}
    /\ \E a \in TickerArguments, d \in DateRanges :
          fetch_args' = [kind |-> a.kind, tickers |-> a.tickers, dates |-> d]
    /\ fetch_pc' = "called"
    /\ fetch_result' = None
    /\ fetch_error' = None
    /\ UNCHANGED raw_files

\* fetch_data.py 47-87
fetch_historical_data ==
    /\ FetchFrame
    /\ fetch_pc = "called"
    /\ IF fetch_args.kind = "list"
         THEN /\ fetch_pc' = "raised"
              /\ fetch_error' = [type |-> "TypeError",
                                 args |-> <<"list indices must be integers or slices, not str">>]
              /\ UNCHANGED <<raw_files, fetch_result>>
       ELSE IF raw_files[fetch_args.dates].exists
         THEN /\ fetch_pc' = "returned"
              /\ fetch_result' = [data |-> [columns |-> raw_files[fetch_args.dates].columns,
                                            rows |-> raw_files[fetch_args.dates].rows],
                                  tickers_df |-> fetch_args.tickers]
              /\ UNCHANGED <<raw_files, fetch_error>>
       ELSE \E data \in Download(fetch_args.tickers) :
              /\ raw_files' = [raw_files EXCEPT ![fetch_args.dates] =
                                   [exists |-> TRUE, columns |-> data.columns,
                                    rows |-> data.rows]]
              /\ fetch_pc' = "returned"
              /\ fetch_result' = [data |-> data, tickers_df |-> fetch_args.tickers]
              /\ UNCHANGED fetch_error
    /\ UNCHANGED fetch_args

FetchNext ==
    \/ FetchCall
    \/ fetch_historical_data

\* ------------------------------------------------- the excel report
\* run_robo_advisor, steps 5 and 6, run after run on one excel path:
\* save_portfolio_allocation and save_risk_metrics of backtesting.py.

ReportFrame ==
    UNCHANGED <<optVars, scoreVars, selVars, histVars, retVars, entryVars, fetchVars,
                workerVars>>

riskArgs == <<risk_pc, risk_returns, risk_weights, risk_free_rate, confidence_level>>

ReportInit ==
    /\ report_pc = "idle"
    /\ run_no = 0
    /\ excel_file = [exists |-> FALSE, sheets |-> << >>]
    /\ report_error = None

SheetNames(file) == {file.sheets[i].name : i \in 1..Len(file.sheets)}

\* robo_advisor.py 118-120: a run has its weights and builds the allocation.
ReportRun ==
    /\ ReportFrame
    /\ report_pc \in {"idle", "done"}
    /\ run_no < MaxRuns
    /\ run_no' = run_no + 1
    /\ \E r \in TwoAssetMatrices, w \in TwoAssetWeights : allocation' = Allocation(r, w)
    /\ report_pc' = "allocated"
    /\ UNCHANGED <<excel_file, report_error, riskVars>>

\* A variant that replaces the allocation sheet and keeps the other sheets.
save_portfolio_allocation_keepSheets ==
    /\ ReportFrame
    /\ report_pc = "allocated"
    /\ excel_file' =
          [exists |-> TRUE,
           sheets |-> <<[name |-> "Sheet1", run |-> run_no]>>
                      \o SelectSeq(excel_file.sheets, LAMBDA sh : sh.name # "Sheet1")]
    /\ report_pc' = "allocation_saved"
    /\ UNCHANGED <<run_no, report_error, allocation, riskVars>>

\* backtesting.py 24-29: allocation.to_excel(excel_path, index=False) writes
\* a new workbook with the one sheet.
save_portfolio_allocation ==
    /\ ReportFrame
    /\ report_pc = "allocated"
    /\ excel_file' = [exists |-> TRUE,
                      sheets |-> <<[name |-> "Sheet1", run |-> run_no]>>]
    /\ report_pc' = "allocation_saved"
    /\ UNCHANGED <<run_no, report_error, allocation, riskVars>>

\* robo_advisor.py 125: the risk metrics of the run's portfolio
ReportRiskMetrics ==
    /\ ReportFrame
    /\ report_pc = "allocation_saved"
    /\ LET rets == [i \in 1..Len(allocation) |-> allocation[i].Ticker]
           w == [i \in 1..Len(allocation) |-> allocation[i].Weight]
           portfolio_returns == PortfolioReturns(rets, w)
       IN  risk_metrics' =
             [var |-> calculate_var(portfolio_returns, VarConfidence),
              max_drawdown |-> calculate_max_drawdown(CumProd(portfolio_returns)),
              sharpe_ratio |-> calculate_sharpe_ratio(portfolio_returns, risk_free_rate)]
    /\ report_pc' = "evaluated"
    /\ UNCHANGED <<run_no, excel_file, report_error, allocation, riskArgs>>

\* backtesting.py 60-73: a new workbook when there is none; otherwise the
\* sheet is appended, which raises ValueError when a sheet of the name exists.
save_risk_metrics ==
    /\ ReportFrame
    /\ report_pc = "evaluated"
    /\ IF ~excel_file.exists
         THEN /\ excel_file' = [exists |-> TRUE,
                                sheets |-> <<[name |-> "Risk Metrics", run |-> run_no]>>]
              /\ report_pc' = "done"
              /\ UNCHANGED report_error
       ELSE IF "Risk Metrics" \in SheetNames(excel_file)
         THEN /\ report_pc' = "raised"
              /\ report_error' = [type |-> "ValueError",
                                  args |-> <<"Sheet 'Risk Metrics' already exists">>]
              /\ UNCHANGED excel_file
       ELSE /\ excel_file' = [excel_file EXCEPT !.sheets =
                                 Append(@, [name |-> "Risk Metrics", run |-> run_no])]
            /\ report_pc' = "done"
            /\ UNCHANGED report_error
    /\ UNCHANGED <<run_no, allocation, riskVars>>

ReportNext ==
    \/ ReportRun
    \/ save_portfolio_allocation
    \/ ReportRiskMetrics
    \/ save_risk_metrics

\* ------------------------------------------- concurrent optimizations
\* Two worker units, each calling optimize_portfolio(returns,
\* method="minimum_variance") on a return matrix of its own.  Every name the
\* call assigns (num_assets, cov_matrix, constraints, bounds, initial_guess,
\* result) is a local of the call; the module's only global is its logger.

Workers == {1, 2}

Other(k) == CHOOSE j \in Workers : j # k

\* The matrices a worker may own: two or three columns.
WorkerMatrices == TwoAssetMatrices \cup {<<1, 2, 3>>}

MinVarianceLabel == "Minimum Variance Optimization failed:"

WorkerFrame ==
    UNCHANGED <<optVars, scoreVars, selVars, riskVars, histVars, retVars, pipeVars,
                entryVars, fetchVars, reportVars>>

WorkerInit ==
    /\ w_pc = [k \in Workers |-> "idle"]
    /\ w_returns = [k \in Workers |-> << >>]
    /\ w_cov_matrix = [k \in Workers |-> None]
    /\ w_initial_guess = [k \in Workers |-> None]
    /\ w_result = [k \in Workers |-> None]
    /\ w_optimized_weights = [k \in Workers |-> None]
    /\ w_error = [k \in Workers |-> None]
    /\ w_overlap = [k \in Workers |-> FALSE]

\* A worker calls optimize_portfolio with its own matrix.
WorkerCall ==
    /\ WorkerFrame
    /\ \E k \in Workers, r \in WorkerMatrices :
        /\ w_pc[k] \in {"idle", "returned", "raised"}
        /\ w_pc' = [w_pc EXCEPT ![k] = "optimize_portfolio"]
        /\ w_returns' = [w_returns EXCEPT ![k] = r]
        /\ w_cov_matrix' = [w_cov_matrix EXCEPT ![k] = None]
        /\ w_initial_guess' = [w_initial_guess EXCEPT ![k] = None]
        /\ w_result' = [w_result EXCEPT ![k] = None]
        /\ w_optimized_weights' = [w_optimized_weights EXCEPT ![k] = None]
        /\ w_error' = [w_error EXCEPT ![k] = None]
        /\ w_overlap' = [w_overlap EXCEPT ![k] = FALSE]

\* optimization.py 308-320 and the dispatch on the method name: no state.
worker_optimize_portfolio ==
    /\ WorkerFrame
    /\ \E k \in Workers :
        /\ w_pc[k] = "optimize_portfolio"
        /\ w_pc' = [w_pc EXCEPT ![k] = "optimize_portfolio_min_variance"]
    /\ UNCHANGED <<w_returns, w_cov_matrix, w_initial_guess, w_result,
                   w_optimized_weights, w_error, w_overlap>>

\* A variant in which cov_matrix and initial_guess are names of the module,
\* so that every call in flight sees the value written last.
worker_min_variance_moduleLevel ==
    /\ WorkerFrame
    /\ \E k \in Workers :
        /\ w_pc[k] = "optimize_portfolio_min_variance"
        /\ w_cov_matrix' = [j \in Workers |-> Cov(w_returns[k])]
        /\ w_initial_guess' = [j \in Workers |-> EqualWeights(Len(w_returns[k]))]
        /\ w_pc' = [w_pc EXCEPT ![k] = "min_variance_minimize"]
    /\ UNCHANGED <<w_returns, w_result, w_optimized_weights, w_error, w_overlap>>

\* optimization.py 135-149, in one worker
worker_min_variance ==
    /\ WorkerFrame
    /\ \E k \in Workers :
        /\ w_pc[k] = "optimize_portfolio_min_variance"
        /\ w_cov_matrix' = [w_cov_matrix EXCEPT ![k] = Cov(w_returns[k])]
        /\ w_initial_guess' =
              [w_initial_guess EXCEPT ![k] = EqualWeights(Len(w_returns[k]))]
        /\ w_pc' = [w_pc EXCEPT ![k] = "min_variance_minimize"]
    /\ UNCHANGED <<w_returns, w_result, w_optimized_weights, w_error, w_overlap>>

\* optimization.py 151-161, in one worker
worker_min_variance_minimize ==
    /\ WorkerFrame
    /\ \E k \in Workers :
        /\ w_pc[k] = "min_variance_minimize"
        /\ \E r \in Minimize(SumToOne, LongOnlyBounds, w_initial_guess[k]) :
            /\ w_result' = [w_result EXCEPT ![k] = r]
            /\ w_pc' = [w_pc EXCEPT ![k] = ReturnOrRaise(r, MinVarianceLabel).pc]
            /\ w_optimized_weights' =
                  [w_optimized_weights EXCEPT
                     ![k] = ReturnOrRaise(r, MinVarianceLabel).optimized_weights]
            /\ w_error' = [w_error EXCEPT ![k] = ReturnOrRaise(r, MinVarianceLabel).error]
        /\ w_overlap' =
              [w_overlap EXCEPT ![k] = w_pc[Other(k)] = "min_variance_minimize"]
    /\ UNCHANGED <<w_returns, w_cov_matrix, w_initial_guess>>

ConcurrentNext ==
    \/ WorkerCall
    \/ worker_optimize_portfolio
    \/ worker_min_variance
    \/ worker_min_variance_minimize

\* ------------------------------------------------------- specifications

Init ==
    /\ OptInit /\ ScoreInit /\ SelInit /\ RiskInit /\ HistInit /\ RetInit /\ PipeInit
    /\ EntryInit
    /\ FetchInit
    /\ ReportInit
    /\ WorkerInit

\* Calls into the optimization engine.
SpecOptimize == Init /\ [][OptNext]_vars

\* Calls of calculate_composite_scores.
SpecScoring == Init /\ [][ScoreNext]_vars

\* Calls of the sector selection.
SpecSelection == Init /\ [][SelNext]_vars

\* Calls of calculate_risk_metrics.
SpecRisk == Init /\ [][RiskNext]_vars

\* Calls of calculate_risk_metrics, one after the other.
SpecRiskRepeat == Init /\ [][RiskRepeatNext]_vars

\* run_robo_advisor from the scoring to the call of the selection.
SpecRun == Init /\ [][RunNext]_vars

\* The program run from the command line, and calls of start_scheduler.
SpecEntry == Init /\ [][EntryNext]_vars

\* Calls of fetch_historical_data.
SpecFetch == Init /\ [][FetchNext]_vars

\* Steps 5 and 6 of consecutive runs on one excel path.
SpecReport == Init /\ [][ReportNext]_vars

\* Two optimize calls in any interleaving.
SpecConcurrent == Init /\ [][ConcurrentNext]_vars

\* Calls of calculate_returns.
SpecReturns == Init /\ [][RetNext]_vars

\* run_robo_advisor from the optimization to the risk metrics.
SpecPipeline == Init /\ [][PipeNext]_vars

\* ------------------------------------------------------------ properties

Dispatchers == {"optimize_portfolio", "optimize_portfolio_multiple_methods"}

\* The call runs one of the four long-only methods.
LongOnlyCall ==
    \/ entry \in LongOnlyFunctions
    \/ entry \in Dispatchers /\ method \in LongOnlyMethods

\* The call runs the long-short method.
LongShortCall ==
    \/ entry = "optimize_portfolio_long_short"
    \/ entry = "optimize_portfolio" /\ method = "long_short"

\* The call runs risk parity.
RiskParityCall ==
    \/ entry = "optimize_portfolio_risk_parity"
    \/ entry \in Dispatchers /\ method = "risk_parity"

\* The call names a method its dispatcher does not know.
UnsupportedCall ==
    \/ entry = "optimize_portfolio" /\ method \notin LongOnlyMethods \cup {"long_short"}
    \/ entry = "optimize_portfolio_multiple_methods" /\ method \notin LongOnlyMethods

\* C1: every weight vector a long-only method returns, called directly or
\* through either dispatcher (the default method included), sums to 1 within
\* 1e-4 and has every weight in [0, 1].
C1_LongOnlyWeights ==
    (pc = "returned" /\ LongOnlyCall) =>
        /\ Abs(Sum(optimized_weights) - ONE) <= Tol
        /\ \A i \in 1..Len(optimized_weights) :
              optimized_weights[i] >= 0 /\ optimized_weights[i] <= ONE

\* optimize_portfolio(returns), the method left to its default, has returned
\* three weights that the solver left a little off a sum of 1.
C1_Witness ==
    /\ pc = "returned"
    /\ entry = "optimize_portfolio"
    /\ method = DefaultMethod
    /\ Len(returns) = 3
    /\ Sum(optimized_weights) # ONE

C3_UnsupportedMethodRejected ==
    UnsupportedCall =>
        /\ pc \in Dispatchers \cup {"raised"}
        /\ mean_returns = None
        /\ cov_matrix = None
        /\ result = None
        /\ minimize_calls = 0
        /\ optimized_weights = None
        /\ pc = "raised" =>
              error = [type |-> "ValueError",
                       args |-> <<"Unsupported optimization method", method>>]

\* optimize_portfolio(returns, method="bogus") has raised.
C3_Witness ==
    /\ pc = "raised"
    /\ entry = "optimize_portfolio"
    /\ method = "bogus"

\* C4: when the solver reports non-success the call has raised a ValueError
\* that carries the solver's message and returned nothing; minimize is called
\* at most once per call; weights are returned only from a successful solve,
\* and are the solver's x.
C4_SolverFailureRaises ==
    /\ minimize_calls <= 1
    /\ (result # None /\ ~result.success) =>
          /\ pc = "raised"
          /\ optimized_weights = None
          /\ error # None
          /\ error.type = "ValueError"
          /\ error.args[Len(error.args)] = result.message
    /\ pc = "returned" =>
          /\ result # None
          /\ result.success
          /\ optimized_weights = result.x

\* A direct risk-parity call whose solve hit the iteration limit has raised.
C4_Witness ==
    /\ pc = "raised"
    /\ entry = "optimize_portfolio_risk_parity"
    /\ result # None
    /\ ~result.success
    /\ result.message = "Iteration limit reached"

\* C5, as claimed: with a metric list and a weight list of different lengths
\* calculate_composite_scores ends by raising to its caller, with no scores.
C5_LengthMismatchRaises ==
    (score_pc \in {"returned", "raised"}
       /\ Len(scoring_config.metrics) # Len(scoring_config.weights)) =>
        /\ score_pc = "raised"
        /\ scores_df = None

\* The tickers of the rows that have a value for every configured metric.
CompleteTickers ==
    {financial_data[i].Ticker : i \in
        {k \in 1..Len(financial_data) :
            \A j \in 1..Len(scoring_config.metrics) :
                financial_data[k].metrics[scoring_config.metrics[j]] # NaN}}

\* The tickers of the score table.
ScoredTickers == {scores_df[i].Ticker : i \in 1..Len(scores_df)}

\* C6: once a scoring with a well-formed configuration has ended, the assets
\* with a score are exactly those with a value for every configured metric,
\* one row each.
C6_ScoredIffComplete ==
    (score_pc \in {"returned", "raised"}
       /\ Len(scoring_config.metrics) = Len(scoring_config.weights)) =>
        /\ ScoredTickers = CompleteTickers
        /\ Len(scores_df) = Cardinality(CompleteTickers)

\* A score table that lacks an asset with a missing configured metric and
\* holds one that misses only a metric that is not configured.
C6_Witness ==
    /\ score_pc = "returned"
    /\ Len(scores_df) >= 1
    /\ Len(scores_df) < Len(financial_data)
    /\ \E i \in 1..Len(financial_data) :
          /\ financial_data[i].Ticker \in ScoredTickers
          /\ \E m \in MetricColumns : financial_data[i].metrics[m] = NaN

\* C7, as claimed: in a sector with fewer eligible members than L+S the long
\* count is L/(L+S) of the size rounded down and at least 1, the short count
\* is at least 1, the two together do not exceed the size, and neither is 0
\* when the sector has two members or more.
C7_ScaledCountsFitSector ==
    sel_pc = "returned" =>
        \A k \in 1..Len(Sectors) :
            LET c == sector_counts[k]
            IN  (c.size >= 1 /\ c.size < num_long + num_short) =>
                    /\ c.long = Max(1, (c.size * num_long) \div (num_long + num_short))
                    /\ c.short >= 1
                    /\ c.long + c.short <= c.size
                    /\ c.size >= 2 => (c.long >= 1 /\ c.short >= 1)

\* C8, as claimed: no ticker is both in the long and in the short set.
C8_LongShortDisjoint ==
    sel_pc = "returned" =>
        {long_tickers[i].Ticker : i \in 1..Len(long_tickers)}
            \cap {short_tickers[i].Ticker : i \in 1..Len(short_tickers)} = {}

\* C9, as claimed: the reported Value-at-Risk is the (1 - c)-quantile of the
\* portfolio returns for the confidence level c the caller configured.
C9_VarAtCallersConfidence ==
    risk_pc = "returned" =>
        risk_metrics.var =
            calculate_var(PortfolioReturns(risk_returns, risk_weights), confidence_level)

\* C10, as claimed: a risk-parity call on a singular covariance matrix fails,
\* if it fails, in the solver and not on the singularity.
C10_SingularReachesSolver ==
    (RiskParityCall /\ pc = "raised" /\ Singular(Cov(returns))) =>
        /\ result # None
        /\ error.type = "ValueError"

\* The call names a method and an objective the engine supports.
SupportedCall ==
    \/ LongOnlyCall
    \/ LongShortCall /\ objective \in Objectives

\* C11, as claimed: a call of a supported method on a return matrix with
\* fewer than two assets ends by raising InsufficientDataError, and returns
\* no weights.
C11_FewerThanTwoAssetsRaises ==
    (pc \in {"returned", "raised"} /\ SupportedCall /\ Len(returns) < 2) =>
        /\ pc = "raised"
        /\ error.type = "InsufficientDataError"
        /\ optimized_weights = None

\* C12, as claimed: the weights a long-only method returns sum to exactly 1.
C12_LongOnlySumExactlyOne ==
    (pc = "returned" /\ LongOnlyCall) => Sum(optimized_weights) = ONE

\* C14, as claimed: the long_short starting point gives the first half of the
\* assets +ratio/half_count each and the others -ratio/half_count each, and is
\* feasible: its positive weights sum to the ratio, its negative weights to
\* minus the ratio.
C14_InitialGuessFeasible ==
    (LongShortCall /\ initial_guess # None) =>
        LET n == Len(returns)
            half_count == n \div 2
        IN  /\ \A i \in 1..n :
                  initial_guess[i] = IF i <= half_count
                                       THEN long_short_ratio \div half_count
                                       ELSE -(long_short_ratio \div half_count)
            /\ Abs(SumPositive(initial_guess) - long_short_ratio) <= Tol
            /\ Abs(SumNegative(initial_guess) + long_short_ratio) <= Tol

\* C15, as claimed: a long_short call with an unsupported objective name goes
\* nowhere but to the ValueError naming the objective: neither the mean, the
\* covariance matrix nor a solve exists at any point of it.
C15_InvalidObjectiveBeforeNumericWork ==
    (LongShortCall /\ objective \notin Objectives) =>
        /\ mean_returns = None
        /\ cov_matrix = None
        /\ result = None
        /\ minimize_calls = 0
        /\ pc = "raised" =>
              error = [type |-> "ValueError",
                       args |-> <<"Unsupported optimization objective", objective>>]

\* C20, as claimed: every call of minimize() is given an iteration limit by
\* the engine.
C20_IterationCapImposed ==
    minimize_calls > 0 => "maxiter" \in minimize_options

\* C13: the weights the optimizer returns are one per column of the return
\* matrix; row i of the allocation table is the ticker of column i with weight
\* i; and the risk evaluation gets the same matrix and weights and weighs the
\* returns of column i with weight i.
C13_WeightsFollowColumns ==
    /\ pc = "returned" => Len(optimized_weights) = Len(returns)
    /\ allocation # None =>
          /\ Len(allocation) = Len(returns)
          /\ \A i \in 1..Len(returns) :
                allocation[i] = [Ticker |-> returns[i], Weight |-> optimized_weights[i]]
    /\ (allocation # None /\ risk_pc \in {"called", "returned"}) =>
          /\ risk_returns = returns
          /\ risk_weights = optimized_weights
    /\ (allocation # None /\ risk_pc = "returned") =>
          LET p == [t \in 1..NumPeriods |->
                       SeqSum([i \in 1..Len(returns) |->
                           ReturnHistory[returns[i]][t] * optimized_weights[i] * 100])
                       \div ONE]
          IN  /\ risk_metrics.var = calculate_var(p, VarConfidence)
              /\ risk_metrics.sharpe_ratio = calculate_sharpe_ratio(p, risk_free_rate)

\* The pipeline has reported and evaluated three different assets whose first
\* and last weights differ.
C13_Witness ==
    /\ allocation # None
    /\ risk_pc = "returned"
    /\ Len(returns) = 3
    /\ returns[1] # returns[3]
    /\ optimized_weights[1] # optimized_weights[3]

\* C16: calculate_returns on a price table of n rows without missing values
\* gives n - 1 rows: the dates of rows 2..n in their order, increasing, each
\* with a return for every asset.
C16_ReturnsDropFirstRow ==
    ret_pc = "returned" =>
        /\ Len(daily_returns) = Len(prices) - 1
        /\ \A k \in 1..Len(daily_returns) :
              /\ daily_returns[k].Date = prices[k + 1].Date
              /\ \A a \in Assets : daily_returns[k].values[a] # NaN
        /\ \A j, k \in 1..Len(daily_returns) :
              j < k => daily_returns[j].Date < daily_returns[k].Date

\* Returns of a table of three rows in which a price rose and a price fell.
C16_Witness ==
    /\ ret_pc = "returned"
    /\ Len(prices) = 3
    /\ \E k \in 1..Len(daily_returns), a, b \in Assets :
          /\ daily_returns[k].values[a][1] > 0
          /\ daily_returns[k].values[b][1] < 0

\* C17: the maximum drawdown calculate_risk_metrics reports is not positive.
C17_MaxDrawdownNotPositive ==
    risk_pc = "returned" => risk_metrics.max_drawdown <= 0

\* A portfolio of three assets that lost value after a peak.
C17_Witness ==
    /\ risk_pc = "returned"
    /\ Len(risk_returns) = 3
    /\ risk_metrics.max_drawdown < 0

\* The call that has returned has the arguments of the earlier call.
SameCallAsEarlier ==
    /\ risk_earlier # None
    /\ risk_earlier.returns = risk_returns
    /\ risk_earlier.weights = risk_weights
    /\ risk_earlier.risk_free_rate = risk_free_rate

C19_ConsumersLeaveWeights ==
    [][(display_portfolio_allocation \/ calculate_risk_metrics) =>
          UNCHANGED <<optimized_weights, returns, risk_weights, risk_returns>>]_vars

\* Both consumers have run on weights the solver left a little off the grid.
C19_Witness ==
    /\ allocation # None
    /\ risk_pc = "returned"
    /\ \E i \in 1..Len(optimized_weights) : optimized_weights[i] % Tol # 0
    /\ risk_weights = optimized_weights

\* The scoring has returned a table for a well-formed configuration.
ScoredWellFormed ==
    /\ score_pc = "returned"
    /\ Len(scoring_config.metrics) = Len(scoring_config.weights)

\* The rows of the fundamentals table with a value for every configured
\* metric, in the order of the table.
Survivors ==
    SelectSeq(financial_data,
        LAMBDA row : \A j \in 1..Len(scoring_config.metrics) :
                        row.metrics[scoring_config.metrics[j]] # NaN)

\* The values of the j-th configured metric over the surviving rows.
SurvivorColumn(j) ==
    [k \in 1..Len(Survivors) |-> Survivors[k].metrics[scoring_config.metrics[j]][1]]

\* The j-th configured metric has one value over all surviving rows.
ConstantMetric(j) ==
    \A k \in 1..Len(Survivors) : SurvivorColumn(j)[k] = SurvivorColumn(j)[1]

\* C25: with a surviving asset the scoring of a well-formed configuration
\* does not raise, and a metric with one value over all surviving assets adds
\* nothing to any composite score: each score is the weighted sum over the
\* other metrics alone.
C25_ConstantMetricAddsNothing ==
    /\ (score_pc \in {"returned", "raised"}
          /\ Len(scoring_config.metrics) = Len(scoring_config.weights)
          /\ Len(Survivors) > 0) => score_pc = "returned"
    /\ ScoredWellFormed =>
          \A i \in 1..Len(scores_df) :
              scores_df[i].Score =
                  SeqSum([j \in 1..Len(scoring_config.metrics) |->
                      IF ConstantMetric(j) THEN 0
                      ELSE Standardize(SurvivorColumn(j))[i] * scoring_config.weights[j]])

\* Scores of two assets or more for two metrics, the first of which has the
\* value 1 for every surviving asset and the second of which varies.
C25_Witness ==
    /\ ScoredWellFormed
    /\ Len(scores_df) >= 2
    /\ Len(scoring_config.metrics) = 2
    /\ ConstantMetric(1)
    /\ SurvivorColumn(1)[1] = 1
    /\ ~ConstantMetric(2)

\* C26: the composite score of the i-th surviving asset is the sum over the
\* configured metrics, in their order, of the asset's standardized value
\* times the weight at the same position.
C26_ScoreIsWeightedSum ==
    ScoredWellFormed =>
        \A i \in 1..Len(scores_df) :
            scores_df[i].Score =
                SeqSum([j \in 1..Len(scoring_config.metrics) |->
                    Standardize(SurvivorColumn(j))[i] * scoring_config.weights[j]])

\* Scores for two varying metrics with the weights 1 and 2.
C26_Witness ==
    /\ ScoredWellFormed
    /\ scoring_config.weights = <<1, 2>>
    /\ ~ConstantMetric(1)
    /\ ~ConstantMetric(2)
    /\ \E i \in 1..Len(scores_df) : scores_df[i].Score # 0

\* C29: the score table has one row per surviving asset, in the order of the
\* fundamentals table, and row i pairs the ticker of the i-th surviving asset
\* with the score of that asset's own metric values.
C29_RowsFollowSurvivors ==
    ScoredWellFormed =>
        /\ Len(scores_df) = Len(Survivors)
        /\ \A i \in 1..Len(scores_df) :
              /\ scores_df[i].Ticker = Survivors[i].Ticker
              /\ scores_df[i].Score =
                    CompositeScore(Survivors, scoring_config.metrics,
                                   scoring_config.weights, i)
        /\ \A i, k \in 1..Len(scores_df) :
              i < k => scores_df[i].Ticker < scores_df[k].Ticker

\* Two assets with different scores survive around one that was dropped.
C29_Witness ==
    /\ ScoredWellFormed
    /\ Len(financial_data) = 3
    /\ Len(scores_df) = 2
    /\ scores_df[1].Ticker = 1
    /\ scores_df[2].Ticker = 3
    /\ scores_df[1].Score # scores_df[2].Score

\* C27, as claimed: after a scoring with a metric list and a weight list of
\* different lengths the run goes no further: the sector selection is not
\* called.
C27_MismatchStopsRun ==
    (score_pc # "idle"
       /\ Len(scoring_config.metrics) # Len(scoring_config.weights)) =>
        sel_pc = "idle"

\* C21, as claimed: the program run without --schedule has called
\* run_robo_advisor once and start_scheduler never; run with --schedule it has
\* called start_scheduler once and run_robo_advisor never.
C21_ScheduleFlagSelectsEntry ==
    main_pc = "exited" =>
        main_calls = IF "--schedule" \in argv
                       THEN [run_robo_advisor |-> 0, start_scheduler |-> 1]
                       ELSE [run_robo_advisor |-> 1, start_scheduler |-> 0]

\* C30, as claimed: once start_scheduler is past its branch on the frequency,
\* a frequency of daily, weekly or monthly has one job registered and, after
\* that, the scheduler started once; any other frequency has no job, no start
\* and has returned.
C30_StartsIffSupportedFrequency ==
    /\ scheduler_starts > 0 => Len(jobs) = 1
    /\ sched_pc \in {"registered", "looping", "returned", "raised"} =>
          IF rebalance_config.frequency \in SupportedFrequencies
            THEN /\ Len(jobs) = 1
                 /\ jobs[1].func = "run_robo_advisor"
                 /\ sched_pc # "registered" => scheduler_starts = 1
            ELSE /\ Len(jobs) = 0
                 /\ scheduler_starts = 0
                 /\ sched_pc = "returned"

\* C22, as claimed: a call of fetch_historical_data with tickers and a date
\* range ends by returning a table that is not empty and has a column for
\* every ticker asked for, downloaded or read from the file of that range.
C22_FetchReturnsRequestedColumns ==
    fetch_pc \in {"returned", "raised"} =>
        /\ fetch_pc = "returned"
        /\ fetch_result.data.rows > 0
        /\ fetch_args.tickers \subseteq fetch_result.data.columns

\* C28: over consecutive runs on one excel path no save raises; while a run
\* is between its two saves the workbook holds that run's allocation and no
\* 'Risk Metrics' sheet; and after the run it holds that run's allocation
\* sheet and one 'Risk Metrics' sheet, of the same run.
C28_ReportHoldsLatestRun ==
    /\ report_pc # "raised"
    /\ report_pc \in {"allocation_saved", "evaluated"} =>
          excel_file = [exists |-> TRUE,
                        sheets |-> <<[name |-> "Sheet1", run |-> run_no]>>]
    /\ report_pc = "done" =>
          excel_file = [exists |-> TRUE,
                        sheets |-> <<[name |-> "Sheet1", run |-> run_no],
                                     [name |-> "Risk Metrics", run |-> run_no]>>]

\* The second run on the path has written both its sheets.
C28_Witness ==
    /\ report_pc = "done"
    /\ run_no = 2
    /\ Len(excel_file.sheets) = 2

\* What a call of optimize_portfolio(rets, method="minimum_variance") can
\* give when it runs alone.
AloneResults(rets) == Minimize(SumToOne, LongOnlyBounds, EqualWeights(Len(rets)))

\* C23: in every interleaving of two optimize calls that each own their
\* return matrix, the locals of a call are those of its own matrix, and what
\* the call returns or raises is what the same call can give when run alone.
C23_ConcurrentCallsIndependent ==
    \A k \in Workers :
        /\ w_pc[k] = "min_variance_minimize" =>
              /\ w_cov_matrix[k] = Cov(w_returns[k])
              /\ w_initial_guess[k] = EqualWeights(Len(w_returns[k]))
        /\ w_pc[k] \in {"returned", "raised"} =>
              \E r \in AloneResults(w_returns[k]) :
                  /\ w_result[k] = r
                  /\ w_pc[k] = ReturnOrRaise(r, MinVarianceLabel).pc
                  /\ w_optimized_weights[k] =
                        ReturnOrRaise(r, MinVarianceLabel).optimized_weights
                  /\ w_error[k] = ReturnOrRaise(r, MinVarianceLabel).error

\* Both calls have returned, the first ran minimize() while the second was
\* inside its own call, and the two matrices differ in width.
C23_Witness ==
    /\ w_pc[1] = "returned"
    /\ w_pc[2] = "returned"
    /\ w_overlap[1]
    /\ Len(w_returns[1]) = 2
    /\ Len(w_returns[2]) = 3

====
